---------------------------- MODULE Spec2Model ----------------------------
(***************************************************************************)
(* Tag Browser (hostaweba/Tag-Browser): the tag store (Modules/utils.py),  *)
(* the tag editor (Modules/tag_editor.py), the main window's handlers      *)
(* (Modules/tag_browser.py), the pie chart of the statistics viewer        *)
(* (Modules/statistics.py) and startup (main.py), as a state machine.      *)
(*                                                                         *)
(* Strings are sequences of one-character strings, so that formatting      *)
(* (', '.join) and parsing (split(','), strip) are computed, not assumed.  *)
(* A path string is the sequence of its components (what split(os.sep)     *)
(* gives), each component a string.                                        *)
(***************************************************************************)
EXTENDS Integers, Sequences, FiniteSets, TLC

VARIABLES
    files,            \* the file system's tag.txt files: absolute directory -> [exists, data]
    written,          \* the directories whose tag.txt this run of the application has written
    tag_cache,        \* TagBrowser.tag_cache: a dict, as its sequence of <<key, tags>> in insertion order
    all_publishers,   \* TagBrowser.all_publishers
    all_topics,       \* TagBrowser.all_topics ([set |-> FALSE] until load_topics has run)
    all_chapters,     \* TagBrowser.all_chapters ([set |-> FALSE] until load_chapters has run)
    all_tags,         \* TagBrowser.all_tags
    publisher_list,   \* the items shown in the publisher column
    topic_list,       \* the items shown in the topic column: <<name, relative>>
    chapter_list,     \* the items shown in the chapter column: <<name, relative>>
    tag_list,         \* the items shown in the tag column
    last,             \* the handler that ran last, with its inputs (history)
    st_tags,          \* tag store round trip: the list handed to save_tags
    st_file,          \* tag store round trip: the file
    st_loaded,        \* tag store round trip: what load_tags returned
    st_pc,            \* tag store round trip: "start", "saved", "loaded"
    stats,            \* what compute_statistics returned, the last time it ran
    exported,         \* the CSV file export_tags wrote, the last time it ran
    ex_tree,          \* statistics on their own: the folder tree under the root
    address_csv,      \* main: the pointer file recources/address.csv
    root_dir,         \* main: root_dir
    main_pc,          \* main: "start", "no_file", "no_path", "window"
    charts,           \* statistics viewer: the pie charts open, the viewer's first, then
                      \* each "Others Breakdown" dialog opened on the one before
    top_n             \* statistics viewer: top_n of its pie charts, 0 for None

appvars == <<files, written, tag_cache, all_publishers, all_topics, all_chapters,
             all_tags, publisher_list, topic_list, chapter_list, tag_list, last>>
stvars == <<st_tags, st_file, st_loaded, st_pc>>
repvars == <<stats, exported, ex_tree>>
mainvars == <<address_csv, root_dir, main_pc>>
pievars == <<charts, top_n>>
vars == <<appvars, stvars, repvars, mainvars, pievars>>

---------------------------------------------------------------------------
(* Characters and strings.                                                 *)

\* The characters of the model in code-point order: Python compares strings
\* code point by code point.
CharOrder == <<" ", "#", "$", "(", ")", ",", ".", "A", "B", "_", "a", "b", "c", "d", "m", "o", "t", "x">>

Ord(c) == CHOOSE i \in 1..Len(CharOrder) : CharOrder[i] = c

IsSpace(c) == c = " "

\* str.lower on one character
LowerChar(c) == IF c = "A" THEN "a" ELSE IF c = "B" THEN "b" ELSE c

\* str.lower
Lower(s) == [i \in 1..Len(s) |-> LowerChar(s[i])]

\* s < t for Python strings
StrLess(s, t) ==
    \E i \in 1..(Len(s) + 1) :
        /\ i <= Len(t)
        /\ \A j \in 1..(i - 1) : s[j] = t[j]
        /\ (i = Len(s) + 1 \/ Ord(s[i]) < Ord(t[i]))

Range(q) == {q[i] : i \in 1..Len(q)}

\* sorted(S) for a set S of strings
RECURSIVE SortedSeq(_)
SortedSeq(S) ==
    IF S = {} THEN <<>>
    ELSE LET m == CHOOSE x \in S : \A y \in S : x = y \/ StrLess(x, y)
         IN  <<m>> \o SortedSeq(S \ {m})

\* str.strip
Strip(s) ==
    LET keep == {i \in 1..Len(s) : ~IsSpace(s[i])}
    IN  IF keep = {} THEN <<>>
        ELSE LET lo == CHOOSE i \in keep : \A j \in keep : i <= j
                 hi == CHOOSE i \in keep : \A j \in keep : j <= i
             IN  SubSeq(s, lo, hi)

\* str.split(',')
RECURSIVE SplitComma(_)
SplitComma(s) ==
    LET commas == {i \in 1..Len(s) : s[i] = ","}
    IN  IF commas = {} THEN <<s>>
        ELSE LET i == CHOOSE k \in commas : \A j \in commas : k <= j
             IN  <<SubSeq(s, 1, i - 1)>> \o SplitComma(SubSeq(s, i + 1, Len(s)))

\* ', '.join(tags)
RECURSIVE JoinComma(_)
JoinComma(tags) ==
    IF tags = <<>> THEN <<>>
    ELSE IF Len(tags) = 1 THEN tags[1]
    ELSE tags[1] \o <<",", " ">> \o JoinComma(Tail(tags))

NonEmpty(t) == t # <<>>

\* [t.strip() for t in text.split(',') if t.strip()]
ParseTags(text) ==
    LET parts == SplitComma(text)
    IN  SelectSeq([i \in 1..Len(parts) |-> Strip(parts[i])], NonEmpty)

---------------------------------------------------------------------------
(* The tag store, Modules/utils.py.                                        *)

NoFile == [exists |-> FALSE, data |-> <<>>]
File(data) == [exists |-> TRUE, data |-> data]

\* load_tags gone wrong: a missing file is read as an empty text and the
\* empty piece is kept, ['']
load_tags_missing_blank(f) ==
    IF f.exists THEN ParseTags(f.data) ELSE <<<<>>>>

\* load_tags(tag_file): f is what is at tag_file
load_tags(f) ==
    IF f.exists THEN ParseTags(f.data) ELSE <<>>

\* save_tags gone wrong: the tags are folded to lower case before the set
save_tags_folds_case(tags) == File(JoinComma(SortedSeq({Lower(t) : t \in Range(tags)})))

\* save_tags gone wrong: the tags are joined as given
save_tags_unsorted(tags) == File(JoinComma(tags))

\* save_tags(tag_file, tags): the file it leaves at tag_file
save_tags(tags) == File(JoinComma(SortedSeq(Range(tags))))

\* A tag as the application handles it: what ParseTags yields, so non-empty,
\* without a comma and without white space at either end.
WellFormedTag(t) ==
    /\ t # <<>>
    /\ \A i \in 1..Len(t) : t[i] # ","
    /\ ~IsSpace(t[1]) /\ ~IsSpace(t[Len(t)])

IsSortedUnique(q) == \A i \in 1..(Len(q) - 1) : StrLess(q[i], q[i + 1])


---------------------------------------------------------------------------
(* The file system.  The directories are fixed: no handler creates or      *)
(* removes one.  An absolute directory is the sequence of its components   *)
(* below "/"; the configured root directory is /x.                         *)

Dot == <<".">>
DotDot == <<".", ".">>
Empty == <<>>

nRoot == <<"x">>
nPubA == <<"$", "_", "a">>
nPubB == <<"#", "_", "B">>
nMisc == <<"m">>
nPlain == <<"_", "_", "c">>
nTopic == <<"t">>
nChap == <<"c">>
nDeep == <<"d">>
nOut == <<"o">>

root_directory == <<nRoot>>
dPubA == <<nRoot, nPubA>>
dPubB == <<nRoot, nPubB>>
dMisc == <<nRoot, nMisc>>
dTopic == <<nRoot, nPubA, nTopic>>
dChap == <<nRoot, nPubA, nTopic, nChap>>
dDeep == <<nRoot, nPubA, nTopic, nChap, nDeep>>
dOut == <<nOut>>

\* every directory there is, "/" included
Dirs == {<<>>, root_directory, dPubA, dPubB, dMisc, dTopic, dChap, dDeep, dOut}

\* the plain files other than tag.txt: /x/__c
PlainFiles == {<<nRoot, nPlain>>}

IsPrefix(p, q) == Len(p) <= Len(q) /\ SubSeq(q, 1, Len(p)) = p

UnderRoot(d) == IsPrefix(root_directory, d)

\* a folder tree: its directories and its plain files; this is the
\* application's
AppTree == [dirs |-> Dirs, plain |-> PlainFiles]

\* os.listdir(d) in a tree: the names in directory d
ListDirIn(tree, d) ==
    {e[Len(e)] : e \in {f \in tree.dirs \cup tree.plain : Len(f) = Len(d) + 1 /\ IsPrefix(d, f)}}

\* os.listdir(d): the names in directory d
ListDir(d) == ListDirIn(AppTree, d)

\* os.path.isdir
IsDir(d) == d \in Dirs

\* the listing gone wrong: plain files are taken for directories
EntriesIn(tree, d) == ListDirIn(tree, d)

\* [name for name in os.listdir(d) if os.path.isdir(os.path.join(d, name))]
\* in a tree, as a set
SubdirsIn(tree, d) == {n \in ListDirIn(tree, d) : Append(d, n) \in tree.dirs}

\* sorted(name for name in os.listdir(d) if os.path.isdir(os.path.join(d, name)))
SortedSubdirs(d) == SortedSeq({n \in ListDir(d) : IsDir(Append(d, n))})

\* os.walk(top): the directories below top, top first.  A directory's
\* entries are taken in sorted order (os.listdir's order is the file
\* system's own; it is the same on every walk of an unchanged tree).
RECURSIVE WalkFrom(_, _)
RECURSIVE Walk(_)
WalkFrom(d, names) ==
    IF names = <<>> THEN <<>>
    ELSE Walk(Append(d, Head(names))) \o WalkFrom(d, Tail(names))
Walk(d) == <<d>> \o WalkFrom(d, SortedSubdirs(d))

\* os.path.relpath(d, root_directory) for a directory d of the walk
RelPath(d) ==
    IF d = root_directory THEN <<Dot>>
    ELSE SubSeq(d, Len(root_directory) + 1, Len(d))

\* A path string as its components: absolute when it starts with "/",
\* which is an empty first component followed by more.
IsAbs(p) == Len(p) >= 2 /\ p[1] = Empty

\* One component of a path applied to directory d: [ok, dir]
StepInto(r, c) ==
    IF ~r.ok THEN r
    ELSE IF c = Empty \/ c = Dot THEN r
    ELSE IF c = DotDot
         THEN [ok |-> TRUE, dir |-> IF r.dir = <<>> THEN <<>> ELSE SubSeq(r.dir, 1, Len(r.dir) - 1)]
    ELSE IF Append(r.dir, c) \in Dirs THEN [ok |-> TRUE, dir |-> Append(r.dir, c)]
    ELSE [ok |-> FALSE, dir |-> <<>>]

RECURSIVE ResolveFrom(_, _)
ResolveFrom(r, p) ==
    IF p = <<>> THEN r ELSE ResolveFrom(StepInto(r, Head(p)), Tail(p))

\* os.path.isdir(os.path.join(root_directory, relative)) and the directory
\* it names: join drops root_directory when relative is absolute, and the
\* kernel resolves "." and ".." components.
Resolve(relative) ==
    ResolveFrom([ok |-> TRUE, dir |-> IF IsAbs(relative) THEN <<>> ELSE root_directory], relative)

---------------------------------------------------------------------------
(* The main window's data: TagBrowser, Modules/tag_browser.py.             *)

\* tag_cache is a dict: a sequence of <<key, value>> in insertion order
CacheKeys(c) == {c[i][1] : i \in 1..Len(c)}
CacheHas(c, k) == \E i \in 1..Len(c) : c[i][1] = k
CacheGet(c, k) == c[CHOOSE i \in 1..Len(c) : c[i][1] = k][2]
\* c[k] = v
CachePut(c, k, v) ==
    IF CacheHas(c, k)
    THEN [i \in 1..Len(c) |-> IF c[i][1] = k THEN <<k, v>> ELSE c[i]]
    ELSE Append(c, <<k, v>>)

RECURSIVE FlattenTags(_)
FlattenTags(c) == IF c = <<>> THEN {} ELSE Range(c[1][2]) \cup FlattenTags(Tail(c))

HasTags(e) == e[2] # <<>>

\* for dirpath, _, _ in os.walk(self.root_directory): the directories, in order
WalkOrder == Walk(root_directory)

\* load_all_tags, the cache it builds from the tag files fs
ScanAllTags(fs) ==
    SelectSeq([i \in 1..Len(WalkOrder) |-> <<RelPath(WalkOrder[i]), load_tags(fs[WalkOrder[i]])>>], HasTags)

\* load_all_tags, the master tag list it derives from the cache c
MasterTags(c) == SortedSeq(FlattenTags(c))

prefixes == {<<"$", "_">>, <<"$", "_", "_">>, <<"#", "_">>, <<"#", "_", "_">>, <<"_", "_">>}

\* load_publishers gone wrong: the entry is not tested for being a directory
PublishersAnyEntry(tree) ==
    SortedSeq({name \in ListDirIn(tree, root_directory) : \E pre \in prefixes : IsPrefix(pre, name)})

\* load_publishers, the list it builds in a tree
PublishersIn(tree) ==
    SortedSeq({name \in ListDirIn(tree, root_directory) :
        /\ Append(root_directory, name) \in tree.dirs
        /\ \E pre \in prefixes : IsPrefix(pre, name)})

\* load_publishers, the list it builds
LoadPublishers == PublishersIn(AppTree)

\* os.path.join(a, name) for path strings as component sequences
JoinPath(a, name) ==
    IF a # <<>> /\ a[Len(a)] = Empty THEN [a EXCEPT ![Len(a)] = name] ELSE Append(a, name)

\* query in s
Contains(query, s) ==
    \E i \in 0..(Len(s) - Len(query)) : SubSeq(s, i + 1, i + Len(query)) = query

\* load_all_tags gone wrong: the master list is extended, not rebuilt
load_all_tags_appends(fs) ==
    LET c == ScanAllTags(fs)
        m == all_tags \o MasterTags(c)
    IN  /\ tag_cache' = c
        /\ all_tags' = m
        /\ tag_list' = m

\* load_all_tags, run on the tag files fs
load_all_tags(fs) ==
    LET c == ScanAllTags(fs)
        m == MasterTags(c)
    IN  /\ tag_cache' = c
        /\ all_tags' = m
        /\ tag_list' = m

\* load_publishers
load_publishers ==
    /\ all_publishers' = LoadPublishers
    /\ publisher_list' = LoadPublishers

Unset == [set |-> FALSE, items |-> <<>>]
\* getattr(self, name, [])
Items(attr) == attr.items

\* the handler that ran last: its name, its yes/no input or mode, whether it
\* ended by an exception, and its input: the CSV file an import was given,
\* the query of a search, the text of a filter, the tag clicked
Last(op, flag, aborted, input) == [op |-> op, flag |-> flag, aborted |-> aborted, input |-> input]

---------------------------------------------------------------------------
(* The tag files a session may start from.                                 *)

txtRaw == <<"b", ",", " ", "A", " ", ",", "b">>     \* "b, A ,b", written by hand
txtA == <<"a">>
txtBA == <<" ", "b", ",", "a">>                     \* " b,a"
txtBlank == <<" ", ",">>                            \* " ,"

NoFiles == [d \in Dirs |-> NoFile]

InitialFiles ==
    { NoFiles,
      [NoFiles EXCEPT ![dTopic] = File(txtRaw), ![dDeep] = File(txtA), ![dMisc] = File(txtBlank),
                      ![dPubA] = File(txtBA)] }

StoreIdle ==
    /\ st_tags = <<>>
    /\ st_file = NoFile
    /\ st_loaded = <<>>
    /\ st_pc = "idle"

\* a dict of counts, as its sequence of <<key, count>> in insertion order;
\* stats is the dict compute_statistics returns, under its keys
NoStats ==
    [computed |-> FALSE, total_publishers |-> 0, total_topics |-> 0, total_chapters |-> 0,
     total_unique_tags |-> 0, topics_per_publisher |-> <<>>, chapters_per_topic |-> <<>>,
     tag_usage_count |-> <<>>]

\* no statistics computed and nothing exported yet
ReportIdle ==
    /\ stats = NoStats
    /\ exported = NoFile
    /\ ex_tree = AppTree

\* no statistics viewer is open
NoViewer ==
    /\ charts = <<>>
    /\ top_n = 0

\* the path string "/x" of the root directory
pRoot == <<Empty, nRoot>>

\* main has read the pointer file, found "/x" and created the main window
Started ==
    /\ address_csv = [exists |-> TRUE, rows |-> << <<pRoot>> >>]
    /\ root_dir = pRoot
    /\ main_pc = "window"

\* TagBrowser.__init__ on one of the file systems of F: load_publishers()
\* and load_all_tags() have run
Opened(F) ==
    /\ files \in F
    /\ written = {}
    /\ tag_cache = ScanAllTags(files)
    /\ all_publishers = LoadPublishers
    /\ all_topics = Unset
    /\ all_chapters = Unset
    /\ all_tags = MasterTags(ScanAllTags(files))
    /\ publisher_list = LoadPublishers
    /\ topic_list = <<>>
    /\ chapter_list = <<>>
    /\ tag_list = MasterTags(ScanAllTags(files))
    /\ last = Last("init", FALSE, FALSE, <<>>)

Init == Opened(InitialFiles) /\ StoreIdle /\ ReportIdle /\ NoViewer /\ Started

---------------------------------------------------------------------------
(* Browsing and searching.                                                 *)

\* load_topics(publisher_item): a click on item i of the publisher column
load_topics(i) ==
    /\ i \in 1..Len(publisher_list)
    /\ LET publisher == publisher_list[i]
           topics == SortedSubdirs(Append(root_directory, publisher))
           found == [k \in 1..Len(topics) |-> <<topics[k], JoinPath(<<publisher>>, topics[k])>>]
       IN  /\ all_topics' = [set |-> TRUE, items |-> found]
           /\ topic_list' = found
    /\ chapter_list' = <<>>
    /\ last' = Last("load_topics", FALSE, FALSE, <<>>)
    /\ UNCHANGED <<files, written, tag_cache, all_publishers, all_chapters, all_tags,
                   publisher_list, tag_list, stvars, repvars, mainvars, pievars>>

\* load_chapters(topic_item): a click on item i of the topic column
load_chapters(i) ==
    /\ i \in 1..Len(topic_list)
    /\ LET topic_relative == topic_list[i][2]
           topic_name == topic_relative[Len(topic_relative)]
           chapters == SortedSubdirs(Resolve(topic_relative).dir)
           found == [k \in 1..Len(chapters) |->
                        <<chapters[k] \o <<" ", "(">> \o topic_name \o <<")">>,
                          JoinPath(topic_relative, chapters[k])>>]
       IN  /\ all_chapters' = [set |-> TRUE, items |-> found]
           /\ chapter_list' = found
    /\ last' = Last("load_chapters", FALSE, FALSE, <<>>)
    /\ UNCHANGED <<files, written, tag_cache, all_publishers, all_topics, all_tags,
                   publisher_list, topic_list, tag_list, stvars, repvars, mainvars, pievars>>

\* the topics of global_search gone wrong: the entries of two parts or more
MatchedTopicsAnyDepth(c, q) ==
    LET hit(e) == /\ Len(e[1]) >= 2
                  /\ \/ Contains(q, Lower(e[1][Len(e[1])]))
                     \/ \E t \in Range(e[2]) : Contains(q, Lower(t))
        sel == SelectSeq(c, hit)
    IN  [k \in 1..Len(sel) |-> <<sel[k][1][2], sel[k][1]>>]

\* the topics global_search shows for query q: the cache entries of two parts
MatchedTopics(c, q) ==
    LET hit(e) == /\ Len(e[1]) = 2
                  /\ \/ Contains(q, Lower(e[1][Len(e[1])]))
                     \/ \E t \in Range(e[2]) : Contains(q, Lower(t))
        sel == SelectSeq(c, hit)
    IN  [k \in 1..Len(sel) |-> <<sel[k][1][2], sel[k][1]>>]

\* the chapters global_search shows for query q: the cache entries of three parts
MatchedChapters(c, q) ==
    LET hit(e) == /\ Len(e[1]) = 3
                  /\ \/ Contains(q, Lower(e[1][Len(e[1])]))
                     \/ \E t \in Range(e[2]) : Contains(q, Lower(t))
        sel == SelectSeq(c, hit)
    IN  [k \in 1..Len(sel) |->
            <<sel[k][1][3] \o <<" ", "(">> \o sel[k][1][2] \o <<")">>, sel[k][1]>>]

\* reset_all_lists gone wrong: the topic and chapter columns show the cached lists
reset_keeps_columns ==
    /\ load_publishers
    /\ load_all_tags(files)
    /\ topic_list' = Items(all_topics)
    /\ chapter_list' = Items(all_chapters)

\* reset_all_lists
reset_all_lists ==
    /\ load_publishers
    /\ load_all_tags(files)
    /\ topic_list' = <<>>
    /\ chapter_list' = <<>>

\* what is typed into the global search box
Queries == {<<>>, <<" ">>, <<"a">>}

\* global_search(text)
global_search(text) ==
    LET query == Lower(Strip(text))
        keepP(p) == Contains(query, Lower(p))
        keepT(t) == Contains(query, Lower(t))
    IN  /\ IF query = <<>>
           THEN reset_all_lists
           ELSE /\ publisher_list' = SelectSeq(all_publishers, keepP)
                /\ tag_list' = SelectSeq(all_tags, keepT)
                /\ topic_list' = MatchedTopics(tag_cache, query)
                /\ chapter_list' = MatchedChapters(tag_cache, query)
                /\ UNCHANGED <<tag_cache, all_publishers, all_tags>>
        /\ last' = Last("global_search", query = <<>>, FALSE, query)
        /\ UNCHANGED <<files, written, all_topics, all_chapters, stvars, repvars, mainvars, pievars>>

---------------------------------------------------------------------------
(* Writing tags: the tag editor, clear-all and the CSV import.             *)

\* what the user may leave in the editor's line edit, besides the text shown
EditTexts == {<<>>, <<"b", ",", "a">>, <<"a", ",", " ", ",", "a", " ">>}

\* show_edit_tags_menu on item i of the topic column (col = "topic") or of
\* the chapter column, TagEditor.__init__ and TagEditor.accept or reject
show_edit_tags_menu(col, i, text, accepted) ==
    LET shown == IF col = "topic" THEN topic_list ELSE chapter_list
    IN  /\ i \in 1..Len(shown)
        /\ LET dir == Resolve(shown[i][2]).dir
               existing_tags == load_tags(files[dir])
           IN  /\ text \in EditTexts \cup {JoinComma(existing_tags)}
               /\ IF accepted
                  THEN LET fs == [files EXCEPT ![dir] = save_tags(ParseTags(text))]
                       IN  /\ files' = fs
                           /\ written' = written \cup {dir}
                           /\ load_all_tags(fs)
                  ELSE UNCHANGED <<files, written, tag_cache, all_tags, tag_list>>
        /\ last' = Last("edit", accepted, FALSE, <<>>)
        /\ UNCHANGED <<all_publishers, all_topics, all_chapters, publisher_list,
                       topic_list, chapter_list, stvars, repvars, mainvars, pievars>>

\* the loop of clear_all_tags over the keys: the tag files it leaves
RECURSIVE ClearFiles(_, _)
ClearFiles(fs, c) ==
    IF c = <<>> THEN fs
    ELSE ClearFiles([fs EXCEPT ![Resolve(c[1][1]).dir] = save_tags(<<>>)], Tail(c))

\* clear_all_tags, the answer to "Are you sure?" being yes
clear_all_tags(yes) ==
    /\ IF yes
       THEN LET fs == ClearFiles(files, tag_cache)
            IN  /\ files' = fs
                /\ written' = written \cup {Resolve(k).dir : k \in CacheKeys(tag_cache)}
                /\ load_all_tags(fs)
       ELSE UNCHANGED <<files, written, tag_cache, all_tags, tag_list>>
    /\ last' = Last("clear_all", yes, FALSE, <<>>)
    /\ UNCHANGED <<all_publishers, all_topics, all_chapters, publisher_list,
                   topic_list, chapter_list, stvars, repvars, mainvars, pievars>>

---------------------------------------------------------------------------
(* The CSV import.  A CSV file is its header, a sequence of column names,  *)
(* and its rows, each the sequence of its fields: csv.DictReader gives a   *)
(* row's field under the header's name at the same position, and None for  *)
(* a column the row is too short for.                                      *)

MaxRows == 2

GoodHeader == <<"Path", "Tags">>

pTopic == <<nPubA, nTopic>>           \* "$_a/t"
pChap == <<nPubA, nTopic, nChap>>     \* "$_a/t/c"
pNoDir == <<nPlain>>                  \* "__c", a plain file
pUp == <<DotDot, nOut>>               \* "../o"
pAbs == <<Empty, nOut>>               \* "/o"

RowPool ==
    { <<pTopic, txtBA>>,              \* $_a/t," b,a"
      <<pTopic, <<>>>>,               \* $_a/t,
      <<pChap, txtA>>,                \* $_a/t/c,a
      <<pNoDir, txtA>>,               \* __c,a
      <<pUp, <<"b">>>>,               \* ../o,b
      <<pAbs, txtA>>,                 \* /o,a
      <<pChap>> }                     \* $_a/t/c        (no Tags field)

RECURSIVE SeqsUpTo(_, _)
SeqsUpTo(S, n) ==
    IF n = 0 THEN {<<>>}
    ELSE LET shorter == SeqsUpTo(S, n - 1)
         IN  shorter \cup {Append(q, x) : q \in {r \in shorter : Len(r) = n - 1}, x \in S}

\* the files an import may be given: every file of at most MaxRows rows
\* under the header Path,Tags, and one whose header lacks the Tags column
CSVs ==
    {[header |-> GoodHeader, rows |-> r] : r \in SeqsUpTo(RowPool, MaxRows)}
        \cup {[header |-> <<"Path">>, rows |-> <<<<pChap>>>>]}

HasCol(header, col) == \E i \in 1..Len(header) : header[i] = col
ColIdx(header, col) == CHOOSE i \in 1..Len(header) : header[i] = col

\* row[col] for a row of the DictReader
Field(header, row, col) == row[ColIdx(header, col)]

\* The row raises: row['Path'] or row['Tags'] is a KeyError when the header
\* lacks the column, and a field that is None has no split (Tags) and
\* cannot be joined to a path (Path).
RowRaises(header, row) ==
    \/ ~HasCol(header, "Path")
    \/ ~HasCol(header, "Tags")
    \/ Len(row) < ColIdx(header, "Path")
    \/ Len(row) < ColIdx(header, "Tags")

\* list(S) for a set S: its elements in any order
RECURSIVE Perms(_)
Perms(S) ==
    IF S = {} THEN {<<>>}
    ELSE UNION {{<<x>> \o q : q \in Perms(S \ {x})} : x \in S}

\* the merge branch gone wrong: the imported tags replace the existing ones
MergeDropsExisting(existing, new_tags) == Perms(Range(new_tags))

\* the merge branch: combined = list(set(existing + new_tags)), in each
\* order the set may be iterated in
Combined(existing, new_tags) == Perms(Range(existing \o new_tags))

\* One row of the loop of import_tags, from st = [files, cache, written,
\* aborted]: the states it may leave.
ImportRow(st, header, row, overwrite) ==
    IF RowRaises(header, row) THEN {[st EXCEPT !.aborted = TRUE]}
    ELSE LET relative == Field(header, row, "Path")
             new_tags == ParseTags(Field(header, row, "Tags"))
             full_path == Resolve(relative)
         IN  IF ~full_path.ok THEN {st}
             ELSE LET stored == IF overwrite THEN {new_tags}
                                ELSE Combined(load_tags(st.files[full_path.dir]), new_tags)
                  IN  {[files |-> [st.files EXCEPT ![full_path.dir] = save_tags(tags)],
                        cache |-> CachePut(st.cache, relative, tags),
                        written |-> st.written \cup {full_path.dir},
                        aborted |-> FALSE] : tags \in stored}

\* the loop gone wrong: a row that raises is noted and the rows after it
\* are applied all the same
RECURSIVE ImportRowsPastError(_, _, _, _)
ImportRowsPastError(S, header, rows, overwrite) ==
    IF rows = <<>> THEN S
    ELSE ImportRowsPastError(
            UNION {{[r EXCEPT !.aborted = st.aborted \/ r.aborted] :
                        r \in ImportRow(st, header, Head(rows), overwrite)} : st \in S},
            header, Tail(rows), overwrite)

\* the loop of import_tags over the rows, which ends at the first row that raises
RECURSIVE ImportRows(_, _, _, _)
ImportRows(S, header, rows, overwrite) ==
    IF rows = <<>> THEN S
    ELSE ImportRows(
            UNION {IF st.aborted THEN {st} ELSE ImportRow(st, header, Head(rows), overwrite) : st \in S},
            header, Tail(rows), overwrite)

\* import_tags(overwrite) on the file csv.  An exception leaves the handler
\* where it is raised: the rows before it are applied, load_all_tags is not
\* called, and the window goes on with the cache as the loop left it.
import_tags(csv, overwrite) ==
    /\ \E st \in ImportRows({[files |-> files, cache |-> tag_cache, written |-> written,
                              aborted |-> FALSE]}, csv.header, csv.rows, overwrite) :
          /\ files' = st.files
          /\ written' = st.written
          /\ IF st.aborted
             THEN /\ tag_cache' = st.cache
                  /\ UNCHANGED <<all_tags, tag_list>>
             ELSE /\ load_all_tags(st.files)
          /\ last' = Last("import", overwrite, st.aborted, csv)
    /\ UNCHANGED <<all_publishers, all_topics, all_chapters, publisher_list,
                   topic_list, chapter_list, stvars, repvars, mainvars, pievars>>

---------------------------------------------------------------------------
(* The session: browsing, searching and every handler that writes, on any *)
(* input.  The import is given one of a few files here; ImportSpec gives   *)
(* it every file of CSVs.  The filters, the reports and startup have       *)
(* specifications of their own below.                                      *)

SessionCSVs ==
    { [header |-> GoodHeader, rows |-> << <<pTopic, txtBA>>, <<pChap, txtA>> >>],
      [header |-> GoodHeader, rows |-> << <<pTopic, <<>>>>, <<pChap>> >>],
      [header |-> GoodHeader, rows |-> << <<pUp, <<"b">>>> >>] }

\* the texts the tag editor may open with: the tags of a shown item, joined
ShownTexts ==
    {JoinComma(load_tags(files[Resolve(it[2]).dir])) : it \in Range(topic_list) \cup Range(chapter_list)}

Next ==
    \/ \E i \in 1..Len(publisher_list) : load_topics(i)
    \/ \E i \in 1..Len(topic_list) : load_chapters(i)
    \/ \E text \in Queries : global_search(text)
    \/ \E col \in {"topic", "chapter"}, accepted \in BOOLEAN :
          \E i \in 1..Len(IF col = "topic" THEN topic_list ELSE chapter_list),
             text \in EditTexts \cup ShownTexts : show_edit_tags_menu(col, i, text, accepted)
    \/ \E yes \in BOOLEAN : clear_all_tags(yes)
    \/ \E csv \in SessionCSVs, overwrite \in BOOLEAN : import_tags(csv, overwrite)

Spec == Init /\ [][Next]_vars

---------------------------------------------------------------------------
(* One import, of any file of CSVs in either mode, into a window that has  *)
(* just been opened.                                                       *)

\* the tag files an import may find: those of InitialFiles, and a tree
\* with tags in the chapter and in /o, outside the root
ImportFiles ==
    InitialFiles \cup
        {[NoFiles EXCEPT ![dTopic] = File(txtA), ![dChap] = File(txtRaw), ![dOut] = File(txtA)]}

ImportInit == Opened(ImportFiles) /\ StoreIdle /\ ReportIdle /\ NoViewer /\ Started

ImportNext ==
    /\ last.op = "init"
    /\ \E csv \in CSVs, overwrite \in BOOLEAN : import_tags(csv, overwrite)

ImportSpec == ImportInit /\ [][ImportNext]_vars

---------------------------------------------------------------------------
(* The tag store on its own: save_tags on any list of tags, then           *)
(* load_tags, on a path that may hold a file already.                      *)

MaxListLen == 3

\* the strings handed to save_tags as tags: tags as ParseTags yields them,
\* and strings it never yields (empty, with a comma, with outer blanks)
TagPool ==
    { <<"a">>, <<"b">>, <<"A">>, <<"a", "b">>, <<"a", " ", "b">>,
      <<>>, <<",">>, <<" ", "a">>, <<"a", ",", "b">> }

StoreInit ==
    /\ Opened({NoFiles})
    /\ ReportIdle
    /\ NoViewer
    /\ Started
    /\ st_tags \in SeqsUpTo(TagPool, MaxListLen)
    /\ st_file \in {NoFile, File(txtRaw)}
    /\ st_loaded = <<>>
    /\ st_pc = "start"

\* save_tags(path, st_tags)
StoreSave ==
    /\ st_pc = "start"
    /\ st_file' = save_tags(st_tags)
    /\ st_pc' = "saved"
    /\ UNCHANGED <<st_tags, st_loaded, appvars, repvars, mainvars, pievars>>

\* load_tags(path)
StoreLoad ==
    /\ st_pc = "saved"
    /\ st_loaded' = load_tags(st_file)
    /\ st_pc' = "loaded"
    /\ UNCHANGED <<st_tags, st_file, appvars, repvars, mainvars, pievars>>

StoreNext == StoreSave \/ StoreLoad

StoreSpec == StoreInit /\ [][StoreNext]_vars

---------------------------------------------------------------------------
(* The per-column filters and the click on a tag.                          *)

\* the filters' needle gone wrong: the text is not stripped
NeedleNotStripped(text) == Lower(text)

\* text.lower().strip()
Needle(text) == Strip(Lower(text))

\* filter_publishers(text)
filter_publishers(text) ==
    LET keep(p) == Contains(Needle(text), Lower(p))
    IN  /\ publisher_list' = SelectSeq(all_publishers, keep)
        /\ last' = Last("filter_publishers", FALSE, FALSE, text)
        /\ UNCHANGED <<files, written, tag_cache, all_publishers, all_topics, all_chapters,
                       all_tags, topic_list, chapter_list, tag_list, stvars, repvars, mainvars, pievars>>

\* filter_topics gone wrong: the filtered list is kept as the cached list
filter_topics_narrows_cache(text) ==
    LET keep(it) == Contains(Needle(text), Lower(it[1]))
    IN  /\ topic_list' = SelectSeq(Items(all_topics), keep)
        /\ all_topics' = [set |-> TRUE, items |-> SelectSeq(Items(all_topics), keep)]
        /\ last' = Last("filter_topics", FALSE, FALSE, text)
        /\ UNCHANGED <<files, written, tag_cache, all_publishers, all_chapters,
                       all_tags, publisher_list, chapter_list, tag_list, stvars, repvars, mainvars, pievars>>

\* filter_topics(text)
filter_topics(text) ==
    LET keep(it) == Contains(Needle(text), Lower(it[1]))
    IN  /\ topic_list' = SelectSeq(Items(all_topics), keep)
        /\ last' = Last("filter_topics", FALSE, FALSE, text)
        /\ UNCHANGED <<files, written, tag_cache, all_publishers, all_topics, all_chapters,
                       all_tags, publisher_list, chapter_list, tag_list, stvars, repvars, mainvars, pievars>>

\* filter_chapters(text)
filter_chapters(text) ==
    LET keep(it) == Contains(Needle(text), Lower(it[1]))
    IN  /\ chapter_list' = SelectSeq(Items(all_chapters), keep)
        /\ last' = Last("filter_chapters", FALSE, FALSE, text)
        /\ UNCHANGED <<files, written, tag_cache, all_publishers, all_topics, all_chapters,
                       all_tags, publisher_list, topic_list, tag_list, stvars, repvars, mainvars, pievars>>

\* filter_tags(text)
filter_tags(text) ==
    LET keep(t) == Contains(Needle(text), Lower(t))
    IN  /\ tag_list' = SelectSeq(all_tags, keep)
        /\ last' = Last("filter_tags", FALSE, FALSE, text)
        /\ UNCHANGED <<files, written, tag_cache, all_publishers, all_topics, all_chapters,
                       all_tags, publisher_list, topic_list, chapter_list, stvars, repvars, mainvars, pievars>>

\* the test of filter_by_tag gone wrong: a tag that contains the clicked one counts
TagMatchesSubstring(clicked_tag, tags) ==
    \E t \in Range(tags) : Contains(clicked_tag, Lower(t))

\* clicked_tag in tags, for tags = [t.lower() for t in load_tags(tag_file)]
TagMatches(clicked_tag, tags) ==
    clicked_tag \in {Lower(t) : t \in Range(tags)}

\* the walk of filter_by_tag: the directories with a tag file that holds the
\* clicked tag and whose relative path has depth parts, in walk order
TagClickHits(fs, clicked_tag, depth) ==
    LET hit(d) == /\ fs[d].exists
                  /\ TagMatches(clicked_tag, load_tags(fs[d]))
                  /\ Len(RelPath(d)) = depth
    IN  SelectSeq(WalkOrder, hit)

\* filter_by_tag(tag_item): a click on item i of the tag column
filter_by_tag(i) ==
    /\ i \in 1..Len(tag_list)
    /\ LET clicked_tag == Lower(Strip(tag_list[i]))
           topics == TagClickHits(files, clicked_tag, 2)
           chapters == TagClickHits(files, clicked_tag, 3)
       IN  /\ topic_list' =
                [k \in 1..Len(topics) |->
                    LET parts == RelPath(topics[k])
                    IN  <<parts[2] \o <<" ", "(">> \o parts[1] \o <<")">>, parts>>]
           /\ chapter_list' =
                [k \in 1..Len(chapters) |->
                    LET parts == RelPath(chapters[k])
                    IN  <<(<<"(">> \o parts[1] \o <<")", " ", "(">> \o parts[2] \o <<")", " ">> \o parts[3]),
                          parts>>]
    /\ last' = Last("filter_by_tag", FALSE, FALSE, tag_list[i])
    /\ UNCHANGED <<files, written, tag_cache, all_publishers, all_topics, all_chapters,
                   all_tags, publisher_list, tag_list, stvars, repvars, mainvars, pievars>>

---------------------------------------------------------------------------
(* Browsing: searches, filters and clicks, in a window opened on tag files *)
(* that an import may have rewritten first.                                *)

txtAab == <<"A", ",", " ", "a", "b">>              \* "A, ab"
txtAb == <<"a", "b">>                              \* "ab"

\* the tag files a browsing session may start from: those of InitialFiles,
\* and a tree where one tag is part of another, "a" of "ab", and the root
\* folder has tags too
BrowseFiles ==
    InitialFiles \cup
        {[NoFiles EXCEPT ![root_directory] = File(txtA), ![dPubA] = File(txtA),
                         ![dTopic] = File(txtAab), ![dChap] = File(txtAb), ![dDeep] = File(txtA)]}

\* what is typed into the global search box
BrowseQueries == Queries \cup {<<"t">>, <<"B">>}

\* what is typed into the search box of a column
FilterTexts == {<<>>, <<"a">>, <<" ", "B">>, <<"t">>}

BrowseInit == Opened(BrowseFiles) /\ StoreIdle /\ ReportIdle /\ NoViewer /\ Started

BrowseNext ==
    \/ \E i \in 1..Len(publisher_list) : load_topics(i)
    \/ \E i \in 1..Len(topic_list) : load_chapters(i)
    \/ \E text \in BrowseQueries : global_search(text)
    \/ \E text \in FilterTexts : filter_publishers(text)
    \/ \E text \in FilterTexts : filter_topics(text)
    \/ \E text \in FilterTexts : filter_chapters(text)
    \/ \E text \in FilterTexts : filter_tags(text)
    \/ \E i \in 1..Len(tag_list) : filter_by_tag(i)
    \/ /\ last.op = "init"
       /\ \E csv \in SessionCSVs, overwrite \in BOOLEAN : import_tags(csv, overwrite)

BrowseSpec == BrowseInit /\ [][BrowseNext]_vars

---------------------------------------------------------------------------
(* Statistics and the CSV export.                                          *)

RECURSIVE SumCounts(_)
\* sum(counts.values())
SumCounts(counts) == IF counts = <<>> THEN 0 ELSE counts[1][2] + SumCounts(Tail(counts))

\* f"{pub}/{topic}"
TopicKey(pub, topic) == pub \o <<"/">> \o topic

\* compute_statistics, its first loop: publisher_topic_count
PublisherTopicCount(tree, pubs) ==
    [i \in 1..Len(pubs) |->
        <<pubs[i], Cardinality(SubdirsIn(tree, Append(root_directory, pubs[i])))>>]

\* compute_statistics, its second loop: topic_chapter_count.  The topics of
\* a publisher are taken in sorted order, as the entries of a walk are.
RECURSIVE TopicChapterCount(_, _)
TopicChapterCount(tree, pubs) ==
    IF pubs = <<>> THEN <<>>
    ELSE LET pub_path == Append(root_directory, Head(pubs))
             topics == SortedSeq(SubdirsIn(tree, pub_path))
         IN  [k \in 1..Len(topics) |->
                 <<TopicKey(Head(pubs), topics[k]),
                   Cardinality(SubdirsIn(tree, Append(pub_path, topics[k])))>>]
             \o TopicChapterCount(tree, Tail(pubs))

\* compute_statistics: tag_usage_count
TagUsageCount(cache, tags) ==
    [i \in 1..Len(tags) |->
        <<tags[i], Cardinality({k \in 1..Len(cache) : tags[i] \in Range(cache[k][2])})>>]

\* compute_statistics: the dict it returns, from the tree, self.all_publishers,
\* self.tag_cache and self.all_tags
Statistics(tree, pubs, cache, tags) ==
    [computed |-> TRUE,
     total_publishers |-> Len(pubs),
     total_topics |-> SumCounts(PublisherTopicCount(tree, pubs)),
     total_chapters |-> SumCounts(TopicChapterCount(tree, pubs)),
     total_unique_tags |-> Len(tags),
     topics_per_publisher |-> PublisherTopicCount(tree, pubs),
     chapters_per_topic |-> TopicChapterCount(tree, pubs),
     tag_usage_count |-> TagUsageCount(cache, tags)]

\* show_statistics: compute_statistics, and the dialog that shows its result
compute_statistics ==
    /\ stats' = Statistics(ex_tree, all_publishers, tag_cache, all_tags)
    /\ last' = Last("compute_statistics", FALSE, FALSE, <<>>)
    /\ UNCHANGED <<files, written, tag_cache, all_publishers, all_topics, all_chapters,
                   all_tags, publisher_list, topic_list, chapter_list, tag_list,
                   exported, ex_tree, stvars, mainvars, pievars>>

\* the rows export_tags writes after the header: one per entry of the cache.
\* A written file is its header and its rows of fields, as a file read by
\* the import is: csv.writer quotes a field that holds a comma.
ExportRows(cache) == [i \in 1..Len(cache) |-> <<cache[i][1], JoinComma(cache[i][2])>>]

\* export_tags, a file name having been chosen or the dialog cancelled
export_tags(chosen) ==
    /\ IF chosen
       THEN exported' = File([header |-> <<"Path", "Tags">>, rows |-> ExportRows(tag_cache)])
       ELSE UNCHANGED exported
    /\ last' = Last("export_tags", chosen, FALSE, <<>>)
    /\ UNCHANGED <<files, written, tag_cache, all_publishers, all_topics, all_chapters,
                   all_tags, publisher_list, topic_list, chapter_list, tag_list,
                   stats, ex_tree, stvars, mainvars, pievars>>

---------------------------------------------------------------------------
(* Reports: statistics and exports in a window that has just been opened,  *)
(* or after one import of any file of CSVs; and the import of a file that  *)
(* the export has just written.                                            *)

ReportInit == Opened(ImportFiles) /\ StoreIdle /\ ReportIdle /\ NoViewer /\ Started

ReportNext ==
    \/ /\ last.op = "init"
       /\ \E csv \in CSVs, overwrite \in BOOLEAN : import_tags(csv, overwrite)
    \/ compute_statistics
    \/ \E chosen \in BOOLEAN : export_tags(chosen)
    \/ /\ last.op = "export_tags" /\ last.flag
       /\ \E overwrite \in BOOLEAN : import_tags(exported.data, overwrite)

ReportSpec == ReportInit /\ [][ReportNext]_vars

---------------------------------------------------------------------------
(* Statistics on their own: the window opened on any tree of a family of   *)
(* trees without tags, and its statistics computed.                        *)

MaxPublishers == 2
MaxTopics == 3
MaxChapters == 2

\* the string of n characters c
Rep(c, n) == [k \in 1..n |-> c]

\* the names of the i-th publisher, topic and chapter: "$__a", "__BB",
\* "$__aaa"; "t", "tt"; "c", "cc"
PubName(i) == IF i % 2 = 1 THEN <<"$", "_", "_">> \o Rep("a", i) ELSE <<"_", "_">> \o Rep("B", i)
TopicName(j) == Rep("t", j)
ChapterName(k) == Rep("c", k)

\* a tree's shape: for each publisher, how many topics it has and how many
\* chapters each of them has
Shapes == SeqsUpTo([topics : 0..MaxTopics, chapters : 0..MaxChapters], MaxPublishers)

\* the tree of a shape.  Every tree also has what the counts must leave
\* out: a top-level folder without a recognized prefix, m, with a folder
\* and a subfolder in it; a plain file with a recognized prefix, __c; and
\* a plain file o in every publisher and in every topic.
TreeOf(shape) ==
    LET pubs == {<<nRoot, PubName(i)>> : i \in 1..Len(shape)}
        topics == UNION {{<<nRoot, PubName(i), TopicName(j)>> : j \in 1..shape[i].topics}
                            : i \in 1..Len(shape)}
        chapters == UNION {{<<nRoot, PubName(i), TopicName(j), ChapterName(k)>>
                                : j \in 1..shape[i].topics, k \in 1..shape[i].chapters}
                              : i \in 1..Len(shape)}
    IN  [dirs |-> {<<>>, root_directory, dMisc, <<nRoot, nMisc, nTopic>>,
                   <<nRoot, nMisc, nTopic, nChap>>} \cup pubs \cup topics \cup chapters,
         plain |-> {<<nRoot, nPlain>>} \cup {Append(d, nOut) : d \in pubs \cup topics}]

Trees == {TreeOf(shape) : shape \in Shapes} \cup {AppTree}

\* TagBrowser.__init__ on a tree of Trees, no folder of which has a tag file
StatsInit ==
    /\ ex_tree \in Trees
    /\ files = NoFiles
    /\ written = {}
    /\ tag_cache = <<>>
    /\ all_publishers = PublishersIn(ex_tree)
    /\ all_topics = Unset
    /\ all_chapters = Unset
    /\ all_tags = <<>>
    /\ publisher_list = PublishersIn(ex_tree)
    /\ topic_list = <<>>
    /\ chapter_list = <<>>
    /\ tag_list = <<>>
    /\ last = Last("init", FALSE, FALSE, <<>>)
    /\ stats = NoStats
    /\ exported = NoFile
    /\ NoViewer
    /\ StoreIdle
    /\ Started

StatsNext == compute_statistics

StatsSpec == StatsInit /\ [][StatsNext]_vars

---------------------------------------------------------------------------
(* Startup: main reads the pointer file and creates the main window on     *)
(* the first directory it names.  The pointer file is missing or is its    *)
(* rows, each the sequence of its fields (csv.reader gives [] for a blank  *)
(* line); a field is a path string.  The window's own state, once created, *)
(* is that of Opened.                                                      *)

MaxPointerRows == 3

\* root_dir = None
NoRoot == <<>>

pFile == <<Empty, nRoot, nPlain>>     \* "/x/__c", a plain file
pGone == <<Empty, nDeep>>             \* "/d", which does not exist
pBlank == <<Empty>>                   \* ""

\* the rows a pointer file may hold: a blank line, "/x", "/o,/x",
\* "/x/__c", "/d,/x" and ",/x"
PointerRows ==
    { <<>>, <<pRoot>>, <<pAbs, pRoot>>, <<pFile>>, <<pGone, pRoot>>, <<pBlank, pRoot>> }

PointerFiles ==
    {[exists |-> FALSE, rows |-> <<>>]}
        \cup {[exists |-> TRUE, rows |-> r] : r \in SeqsUpTo(PointerRows, MaxPointerRows)}

\* os.path.isdir(path) for a field of the pointer file: an absolute path
\* or the empty string
PointerIsDir(path) == IsAbs(path) /\ Resolve(path).ok

\* the loop of main gone wrong: it does not stop at the first directory
RECURSIVE LastDir(_)
LastDir(rows) ==
    IF rows = <<>> THEN NoRoot
    ELSE LET row == rows[Len(rows)]
         IN  IF row # <<>> /\ PointerIsDir(row[1]) THEN row[1]
             ELSE LastDir(SubSeq(rows, 1, Len(rows) - 1))

\* the loop of main over the rows: root_dir when it ends
RECURSIVE FirstDir(_)
FirstDir(rows) ==
    IF rows = <<>> THEN NoRoot
    ELSE LET row == Head(rows)
         IN  IF row # <<>> /\ PointerIsDir(row[1]) THEN row[1]
             ELSE FirstDir(Tail(rows))

\* no main window exists
NoWindow ==
    /\ files = NoFiles
    /\ written = {}
    /\ tag_cache = <<>>
    /\ all_publishers = <<>>
    /\ all_topics = Unset
    /\ all_chapters = Unset
    /\ all_tags = <<>>
    /\ publisher_list = <<>>
    /\ topic_list = <<>>
    /\ chapter_list = <<>>
    /\ tag_list = <<>>
    /\ last = Last("start", FALSE, FALSE, <<>>)

MainInit ==
    /\ address_csv \in PointerFiles
    /\ root_dir = NoRoot
    /\ main_pc = "start"
    /\ NoWindow
    /\ StoreIdle
    /\ ReportIdle
    /\ NoViewer

\* main: "no_file" and "no_path" are its two error boxes, each followed by
\* return; "window" is TagBrowser(root_dir) created and shown
main ==
    /\ main_pc = "start"
    /\ IF ~address_csv.exists
       THEN /\ main_pc' = "no_file"
            /\ root_dir' = NoRoot
       ELSE /\ root_dir' = FirstDir(address_csv.rows)
            /\ main_pc' = IF FirstDir(address_csv.rows) = NoRoot THEN "no_path" ELSE "window"
    /\ UNCHANGED <<address_csv, appvars, stvars, repvars, pievars>>

MainNext == main

MainSpec == MainInit /\ [][MainNext]_vars

---------------------------------------------------------------------------
(* The statistics viewer's pie chart, Modules/statistics.py: the pie of    *)
(* the tag usage counts and the dialogs that a double click on its         *)
(* "Others" wedge opens, one on the other.                                 *)

MaxCategories == 5
MaxCount == 2
MaxTopN == 3

\* the label of the wedge that groups the categories beyond top_n
Others == <<"O", "t", "h", "e", "r", "s">>

\* the i-th category: the tags "a", "Others" (a tag may have that name),
\* "aaa", "aaaa", ...
Category(i) == IF i = 2 THEN Others ELSE Rep("a", i)

\* the dicts of counts a pie may be made of: at most MaxCategories
\* categories, each counted 1 to MaxCount times
UsageCounts ==
    UNION {{[i \in 1..n |-> <<Category(i), f[i]>>] : f \in [1..n -> 1..MaxCount]} : n \in 0..MaxCategories}

\* items.sort(key=lambda x: x[1], reverse=True): by value, largest first,
\* equal values in the order they had.  The item at position i goes behind
\* the items of greater value and the items of equal value before it.
SortDesc(items) ==
    LET place(i) == 1 + Cardinality({j \in 1..Len(items) :
                            \/ items[j][2] > items[i][2]
                            \/ items[j][2] = items[i][2] /\ j < i})
    IN  [r \in 1..Len(items) |-> items[CHOOSE i \in 1..Len(items) : place(i) = r]]

\* dict(pairs): the keys in the order of their first pair, each with the
\* value of its last pair
DictOf(pairs) ==
    LET first == {i \in 1..Len(pairs) : \A j \in 1..(i - 1) : pairs[j][1] # pairs[i][1]}
        nth(r) == CHOOSE i \in first : Cardinality({j \in first : j < i}) = r - 1
        final(k) == CHOOSE i \in 1..Len(pairs) :
                        pairs[i][1] = k /\ \A j \in (i + 1)..Len(pairs) : pairs[j][1] # k
    IN  [r \in 1..Cardinality(first) |-> <<pairs[nth(r)][1], pairs[final(pairs[nth(r)][1])][2]>>]

\* _make_chart_tab gone wrong: the leftover is the whole list
make_chart_tab_keeps_all(data_dict, n) ==
    LET items == SortDesc(data_dict)
    IN  IF n # 0 /\ Len(items) > n
        THEN [data_dict |-> data_dict,
              items |-> Append(SubSeq(items, 1, n), <<Others, SumCounts(items)>>),
              leftover_items |-> items]
        ELSE [data_dict |-> data_dict, items |-> items, leftover_items |-> <<>>]

\* _make_chart_tab(data_dict, title, kind="pie", top_n=n): the items the
\* pie shows and the leftover_items its handlers hold
make_chart_tab(data_dict, n) ==
    LET items == SortDesc(data_dict)
        leftover_items == SubSeq(items, n + 1, Len(items))
    IN  IF n # 0 /\ Len(items) > n
        THEN [data_dict |-> data_dict,
              items |-> Append(SubSeq(items, 1, n), <<Others, SumCounts(leftover_items)>>),
              leftover_items |-> leftover_items]
        ELSE [data_dict |-> data_dict, items |-> items, leftover_items |-> <<>>]

\* the viewer is open with its pie of some counts, for some top_n
PieInit ==
    /\ Opened({NoFiles})
    /\ StoreIdle
    /\ ReportIdle
    /\ Started
    /\ top_n \in 0..MaxTopN
    /\ \E data \in UsageCounts : charts = <<make_chart_tab(data, top_n)>>

\* on_double_click(event) in the pie that is on top (its dialog is modal),
\* the event being on wedge w: a wedge labelled "Others", with leftover
\* items, opens a dialog with the pie of the leftover; any other does nothing
on_double_click(w) ==
    LET chart == charts[Len(charts)]
    IN  /\ charts # <<>>
        /\ w \in 1..Len(chart.items)
        /\ chart.items[w][1] = Others
        /\ chart.leftover_items # <<>>
        /\ \E sub_data \in {DictOf(chart.leftover_items)} :
              charts' = Append(charts, make_chart_tab(sub_data, top_n))
        /\ UNCHANGED <<top_n, appvars, stvars, repvars, mainvars>>

PieNext == \E w \in 1..(MaxTopN + 1) : on_double_click(w)

\* A chain of drilldowns: the wedge is double-clicked for as long as a
\* pie on top offers it.
PieSpec == PieInit /\ [][PieNext]_vars /\ WF_vars(PieNext)

---------------------------------------------------------------------------
(* C1.  Round trip of the tag store.                                       *)

WellFormedList(tags) == \A i \in 1..Len(tags) : WellFormedTag(tags[i])

\* C1, as stated: for every list of tags, save_tags then load_tags returns
\* the sorted, duplicate-free form of the list.
C1_RoundTripAnyList ==
    st_pc = "loaded" => st_loaded = SortedSeq(Range(st_tags))

\* C1, amended: for every list of tags each of which is non-empty, has no
\* comma and no white space at either end (every tag the application
\* saves is one), save_tags then load_tags returns the sorted,
\* duplicate-free form of the list.
C1_RoundTrip ==
    (st_pc = "loaded" /\ WellFormedList(st_tags)) =>
        /\ st_loaded = SortedSeq(Range(st_tags))
        /\ IsSortedUnique(st_loaded)
        /\ Range(st_loaded) = Range(st_tags)

\* C1's case: a list of three well-formed tags, out of order and with a
\* duplicate, has been saved over an existing file and loaded back.
C1_Witness ==
    /\ st_pc = "loaded"
    /\ WellFormedList(st_tags)
    /\ Len(st_tags) = 3
    /\ Cardinality(Range(st_tags)) = 2
    /\ StrLess(st_tags[2], st_tags[1])
    /\ Len(st_loaded) = 2

---------------------------------------------------------------------------
(* C2.  What the application writes is sorted and duplicate-free.          *)

\* C2: in every state of a session of edits, imports and clear-alls, every
\* tag file the application has written exists and holds a tag list that
\* is in strictly ascending order, so sorted and without duplicates.
C2_WrittenSortedUnique ==
    \A d \in written : files[d].exists /\ IsSortedUnique(load_tags(files[d]))

\* C2's case: the editor has just saved, after imports that wrote the topic
\* (three tags, which only a merge with the tags found there gives) and /o.
C2_Witness ==
    /\ last.op = "edit" /\ last.flag
    /\ {dTopic, dOut} \subseteq written
    /\ Len(load_tags(files[dTopic])) = 3

---------------------------------------------------------------------------
(* C3.  A write is followed by a full reload of the cache.                 *)

\* the cache holds exactly the folders with a non-empty tag file, each with
\* the tags of its file
CacheMatchesFiles ==
    /\ \A d \in Range(WalkOrder) :
          IF load_tags(files[d]) # <<>>
          THEN /\ CacheHas(tag_cache, RelPath(d))
               /\ CacheGet(tag_cache, RelPath(d)) = load_tags(files[d])
          ELSE ~CacheHas(tag_cache, RelPath(d))
    /\ CacheKeys(tag_cache) \subseteq {RelPath(d) : d \in Range(WalkOrder)}

WriteEnded ==
    \/ last.op = "import"
    \/ last.op \in {"edit", "clear_all"} /\ last.flag

\* C3, as stated: once a write operation (editor accepted, import, clear-all
\* confirmed) has ended, the cache maps exactly the folders whose tag file
\* is non-empty to the tags of that file.
C3_ReloadAfterWrite == WriteEnded => CacheMatchesFiles

---------------------------------------------------------------------------
(* C4.  A missing tag file reads as an empty tag set.                      *)

\* tag files that hold no tag: "" and " ,"
EmptyFiles == {File(<<>>), File(txtBlank)}

\* the tags a merge import may bring
ImportedTags == {ParseTags(row[2]) : row \in {r \in RowPool : Len(r) = 2}}

\* C4: load_tags where there is no file returns no tag; and for every folder
\* without a tag file, putting an empty tag file there changes nothing of
\* what the scan builds, of the text the tag editor opens with, and of what
\* a merge import makes of the folder's tags.
C4_MissingIsEmpty ==
    /\ load_tags(NoFile) = <<>>
    /\ \A d \in Dirs : ~files[d].exists =>
          \A e \in EmptyFiles :
              LET fs == [files EXCEPT ![d] = e]
              IN  /\ load_tags(files[d]) = load_tags(fs[d])
                  /\ ScanAllTags(files) = ScanAllTags(fs)
                  /\ JoinComma(load_tags(files[d])) = JoinComma(load_tags(fs[d]))
                  /\ \A new_tags \in ImportedTags :
                        Combined(load_tags(files[d]), new_tags) = Combined(load_tags(fs[d]), new_tags)

\* C4's case: a merge import has run and the walk of the reload passed
\* folders without a tag file, beside folders with tags.
C4_Witness ==
    /\ last.op = "import" /\ ~last.flag /\ ~last.aborted
    /\ ~files[dChap].exists
    /\ files[dTopic].exists
    /\ tag_cache # <<>>

---------------------------------------------------------------------------
(* C5.  The cache holds no empty entry.                                    *)

\* C5, as stated: between user operations a folder is a key of the cache
\* exactly when its tag file yields a tag, and no entry holds an empty list.
C5_NoEmptyEntry ==
    /\ \A i \in 1..Len(tag_cache) : tag_cache[i][2] # <<>>
    /\ \A d \in Range(WalkOrder) :
          CacheHas(tag_cache, RelPath(d)) <=> load_tags(files[d]) # <<>>

---------------------------------------------------------------------------
(* C6 to C9.  The CSV import, one file at a time.                          *)

\* a row with both of its fields
FullRow(row) == Len(row) = 2

\* the rows of csv that name directory d: their positions
RowsNaming(csv, d) ==
    {i \in 1..Len(csv.rows) : Resolve(csv.rows[i][1]).ok /\ Resolve(csv.rows[i][1]).dir = d}

Max(S) == CHOOSE x \in S : \A y \in S : y <= x

\* C6, as stated: after an import in overwrite mode, every folder under the
\* root that a row with tags names holds exactly the tags of the last such
\* row, and the tag file of every folder that no row names is unchanged
\* (a row whose path is no directory names none).
C6_OverwriteSetsRows ==
    [][(last'.op = "import" /\ last'.flag) =>
          \A d \in Dirs :
              LET csv == last'.input
                  named == {i \in RowsNaming(csv, d) : FullRow(csv.rows[i])}
              IN  /\ (named # {} /\ UnderRoot(d)) =>
                        Range(load_tags(files'[d])) = Range(ParseTags(csv.rows[Max(named)][2]))
                  /\ RowsNaming(csv, d) = {} => files'[d] = files[d]]_vars

\* the rows the loop gets through: those before the first one that raises
Processed(csv) ==
    {i \in 1..Len(csv.rows) : \A j \in 1..i : ~RowRaises(csv.header, csv.rows[j])}

C8_WritesUnderRoot ==
    [][last'.op = "import" => \A d \in Dirs : ~UnderRoot(d) => files'[d] = files[d]]_vars

\* the well-formed rows of csv, in order
WellFormedRow(row) == FullRow(row)
WellFormedRows(csv) == SelectSeq(csv.rows, WellFormedRow)

\* C9, as stated: a row that lacks a column is skipped: the import leaves
\* the tag files that the file's well-formed rows alone would leave, and it
\* ends with the cache reloaded from them.
C9_MalformedRowSkipped ==
    [][last'.op = "import" =>
          /\ files' \in {st.files : st \in
                ImportRows({[files |-> files, cache |-> tag_cache, written |-> written,
                             aborted |-> FALSE]},
                           GoodHeader, WellFormedRows(last'.input), last'.flag)}
          /\ tag_cache' = ScanAllTags(files')]_vars

---------------------------------------------------------------------------
(* C10.  Global search with an empty query.                                *)

SearchedEmpty == last.op = "global_search" /\ last.flag

\* C10, as stated: after a global search with an empty or blank query the
\* four columns show the full unfiltered publisher, topic, chapter and tag
\* lists.
C10_RestoresAllLists ==
    SearchedEmpty =>
        /\ publisher_list = all_publishers
        /\ topic_list = Items(all_topics)
        /\ chapter_list = Items(all_chapters)
        /\ tag_list = all_tags

\* C10, amended: after a global search with an empty or blank query the
\* publisher column shows every recognized publisher and the tag column
\* every tag of the tag files, both reloaded, and the topic and chapter
\* columns are empty.
C10_ResetsLists ==
    SearchedEmpty =>
        /\ publisher_list = all_publishers
        /\ Range(publisher_list) = {nPubA, nPubB}
        /\ tag_list = all_tags
        /\ Range(tag_list) = UNION {Range(load_tags(files[d])) : d \in Range(WalkOrder)}
        /\ IsSortedUnique(tag_list)
        /\ topic_list = <<>>
        /\ chapter_list = <<>>

\* C10's case: the query was cleared after a publisher and a topic had been
\* opened and tags exist, so there were topics, chapters and tags to show.
C10_Witness ==
    /\ SearchedEmpty
    /\ Items(all_topics) # <<>>
    /\ Items(all_chapters) # <<>>
    /\ tag_list # <<>>

---------------------------------------------------------------------------
(* C11.  What a global search lists.                                       *)

\* the folders n levels below the root: publishers 1, topics 2, chapters 3
FoldersAtDepth(n) == {d \in Dirs : UnderRoot(d) /\ Len(d) = Len(root_directory) + n}

\* the folder's name or one of the tags of its tag file contains q, case ignored
NameOrTagContains(d, q) ==
    \/ Contains(q, Lower(d[Len(d)]))
    \/ \E t \in Range(load_tags(files[d])) : Contains(q, Lower(t))

\* the relative paths an item list shows
ShownPaths(list) == {it[2] : it \in Range(list)}

SearchedFor == last.op = "global_search" /\ ~last.flag

\* C11, as stated: after a global search for a non-empty query q, a
\* publisher is listed exactly when its name contains q, and a topic or
\* chapter folder under the root, tagged or not, is listed exactly when its
\* name or one of its tags contains q, case ignored throughout.
C11_SearchListsMatches ==
    SearchedFor =>
        LET q == last.input
        IN  /\ Range(publisher_list) = {p \in Range(LoadPublishers) : Contains(q, Lower(p))}
            /\ ShownPaths(topic_list) =
                  {RelPath(d) : d \in {e \in FoldersAtDepth(2) : NameOrTagContains(e, q)}}
            /\ ShownPaths(chapter_list) =
                  {RelPath(d) : d \in {e \in FoldersAtDepth(3) : NameOrTagContains(e, q)}}

---------------------------------------------------------------------------
(* C12.  The click on a tag.                                               *)

TagClicked == last.op = "filter_by_tag"

\* the folder's tag file holds a tag equal to tag, case ignored
HoldsTag(d, tag) == \E t \in Range(load_tags(files[d])) : Lower(t) = Lower(tag)

\* C12: after a click on a tag, the topic column shows exactly the folders
\* two levels below the root, and the chapter column exactly the folders
\* three levels below it, whose tags include one equal to the clicked tag
\* with case ignored, each once; a folder whose tags only contain the
\* clicked tag as a part of a longer tag is not shown.
C12_TagClickExact ==
    TagClicked =>
        /\ ShownPaths(topic_list) = {RelPath(d) : d \in {e \in FoldersAtDepth(2) : HoldsTag(e, last.input)}}
        /\ ShownPaths(chapter_list) = {RelPath(d) : d \in {e \in FoldersAtDepth(3) : HoldsTag(e, last.input)}}
        /\ Cardinality(ShownPaths(topic_list)) = Len(topic_list)
        /\ Cardinality(ShownPaths(chapter_list)) = Len(chapter_list)

\* C12's case: "a" was clicked; the topic, tagged "A" and "ab", is shown and
\* the chapter, tagged "ab" only, is not.
C12_Witness ==
    /\ TagClicked
    /\ last.input = <<"a">>
    /\ ShownPaths(topic_list) = {pTopic}
    /\ chapter_list = <<>>
    /\ load_tags(files[dChap]) = <<txtAb>>

---------------------------------------------------------------------------
(* C13 and C14.  The per-column filters.                                   *)

FilterOps == {"filter_publishers", "filter_topics", "filter_chapters", "filter_tags"}

Filtered == last.op \in FilterOps

\* the column a filter works on: what it shows, and its cached list
ColumnShown ==
    CASE last.op = "filter_publishers" -> publisher_list
      [] last.op = "filter_topics" -> topic_list
      [] last.op = "filter_chapters" -> chapter_list
      [] OTHER -> tag_list

ColumnCached ==
    CASE last.op = "filter_publishers" -> all_publishers
      [] last.op = "filter_topics" -> Items(all_topics)
      [] last.op = "filter_chapters" -> Items(all_chapters)
      [] OTHER -> all_tags

\* the name an item of that column shows
NameOf(x) == IF last.op \in {"filter_topics", "filter_chapters"} THEN x[1] ELSE x

\* sub is full with some items left out, the others in the order of full
IsSubSeqOf(sub, full) ==
    \E f \in [1..Len(sub) -> 1..Len(full)] :
        /\ \A i \in 1..Len(sub) : full[f[i]] = sub[i]
        /\ \A i \in 1..(Len(sub) - 1) : f[i] < f[i + 1]

\* C13: after a per-column filter with text t, the column shows the items
\* of its cached list whose name contains the trimmed t, case ignored, in
\* the cached order and no other; an empty or blank t shows the whole
\* cached list; a column whose list was never loaded shows nothing.
C13_FilterShowsMatches ==
    Filtered =>
        LET needle == Lower(Strip(last.input))
        IN  /\ IsSubSeqOf(ColumnShown, ColumnCached)
            /\ \A k \in 1..Len(ColumnCached) :
                  (ColumnCached[k] \in Range(ColumnShown))
                      <=> Contains(needle, Lower(NameOf(ColumnCached[k])))
            /\ needle = <<>> => ColumnShown = ColumnCached
            /\ (last.op = "filter_topics" /\ ~all_topics.set) => topic_list = <<>>
            /\ (last.op = "filter_chapters" /\ ~all_chapters.set) => chapter_list = <<>>

\* C13's case: the publishers were filtered by " B": of the two cached
\* publishers the column shows "#_B" alone.
C13_Witness ==
    /\ last.op = "filter_publishers"
    /\ last.input = <<" ", "B">>
    /\ Len(all_publishers) = 2
    /\ publisher_list = <<nPubB>>

\* C14: a per-column filter leaves the tag cache, the four cached lists and
\* every tag file as they are, and changes no column but its own.
C14_FiltersKeepCache ==
    [][last'.op \in FilterOps =>
          /\ UNCHANGED <<tag_cache, all_publishers, all_topics, all_chapters, all_tags, files>>
          /\ last'.op # "filter_publishers" => UNCHANGED publisher_list
          /\ last'.op # "filter_topics" => UNCHANGED topic_list
          /\ last'.op # "filter_chapters" => UNCHANGED chapter_list
          /\ last'.op # "filter_tags" => UNCHANGED tag_list]_vars

\* C14's case: the topics were filtered down to fewer than the cached
\* topics, in a window with tags in its cache.
C14_Witness ==
    /\ last.op = "filter_topics"
    /\ Len(topic_list) < Len(Items(all_topics))
    /\ tag_cache # <<>>

---------------------------------------------------------------------------
(* C15 to C17.  Statistics.                                                *)

StatsShown == last.op = "compute_statistics"

HasPrefix(name) == \E pre \in prefixes : IsPrefix(pre, name)

\* the recognized publisher folders of a tree, their topic folders and the
\* chapter folders of those
PublisherFolders(tree) ==
    {d \in tree.dirs : Len(d) = 2 /\ d[1] = nRoot /\ HasPrefix(d[2])}
TopicFolders(tree) ==
    {d \in tree.dirs : Len(d) = 3 /\ SubSeq(d, 1, 2) \in PublisherFolders(tree)}
ChapterFolders(tree) ==
    {d \in tree.dirs : Len(d) = 4 /\ SubSeq(d, 1, 3) \in TopicFolders(tree)}

\* the root with 2 publishers, each with 3 topics of 2 chapters
ExampleTree == TreeOf(<<[topics |-> 3, chapters |-> 2], [topics |-> 3, chapters |-> 2]>>)

\* the keys of a dict of counts
Keys(counts) == {counts[i][1] : i \in 1..Len(counts)}

\* C15: in the statistics of any tree, 'Total publishers' is the number of
\* recognized publisher folders; each publisher's topic count is the number
\* of its direct subdirectories, and 'Total topics' is their sum and the
\* number of entries of 'Chapters per topic'; 'Total chapters' is the sum
\* of the per-topic chapter counts, the number of chapter folders; and the
\* root with 2 publishers, each with 3 topics of 2 chapters, gives 2, 6, 12.
C15_StatisticsTotals ==
    StatsShown =>
        /\ stats.total_publishers = Cardinality(PublisherFolders(ex_tree))
        /\ \A i \in 1..Len(stats.topics_per_publisher) :
              LET e == stats.topics_per_publisher[i]
              IN  e[2] = Cardinality({d \in TopicFolders(ex_tree) : d[2] = e[1]})
        /\ stats.total_topics = SumCounts(stats.topics_per_publisher)
        /\ stats.total_topics = Cardinality(TopicFolders(ex_tree))
        /\ stats.total_topics = Len(stats.chapters_per_topic)
        /\ Cardinality(Keys(stats.chapters_per_topic)) = Len(stats.chapters_per_topic)
        /\ stats.total_chapters = SumCounts(stats.chapters_per_topic)
        /\ stats.total_chapters = Cardinality(ChapterFolders(ex_tree))
        /\ ex_tree = ExampleTree =>
              /\ stats.total_publishers = 2
              /\ stats.total_topics = 6
              /\ stats.total_chapters = 12

\* C15's case: the statistics of the example root have been computed.
C15_Witness ==
    /\ StatsShown
    /\ ex_tree = ExampleTree
    /\ stats.total_publishers = 2
    /\ stats.total_chapters = 12

\* the usage count the statistics give for a tag
UsageOf(tag) ==
    (CHOOSE e \in Range(stats.tag_usage_count) : e[1] = tag)[2]

\* C16, as stated: in the statistics, the keys of 'Tag usage count' are
\* exactly the distinct tags of the cache; the count of each is the number
\* of cache entries (folders) whose tags include it, and is at least 1;
\* and 'Total unique tags' is the number of keys.
C16_TagUsage ==
    StatsShown =>
        /\ Keys(stats.tag_usage_count) = FlattenTags(tag_cache)
        /\ \A tag \in FlattenTags(tag_cache) :
              /\ tag \in Keys(stats.tag_usage_count)
              /\ UsageOf(tag) = Cardinality({k \in 1..Len(tag_cache) : tag \in Range(tag_cache[k][2])})
        /\ \A i \in 1..Len(stats.tag_usage_count) : stats.tag_usage_count[i][2] >= 1
        /\ stats.total_unique_tags = Cardinality(Keys(stats.tag_usage_count))

\* C17, as stated: computing the statistics changes neither the tag cache,
\* nor a cached or shown list, nor a tag file, and its result is fixed by
\* the folder tree and the tag cache alone: it is what they give with the
\* publishers listed from the tree and the tags collected from the cache.
C17_StatisticsPure ==
    [][last'.op = "compute_statistics" =>
          /\ UNCHANGED <<files, tag_cache, all_publishers, all_topics, all_chapters, all_tags,
                         publisher_list, topic_list, chapter_list, tag_list>>
          /\ stats' = Statistics(ex_tree, PublishersIn(ex_tree), tag_cache, MasterTags(tag_cache))]_vars

---------------------------------------------------------------------------
(* C18.  The CSV export.                                                   *)

Exported == last.op = "export_tags" /\ last.flag

\* the folders under the root whose tag file yields a tag
TaggedFolders == {d \in Range(WalkOrder) : load_tags(files[d]) # <<>>}

\* C18, as stated: the exported file has the header Path,Tags and then
\* exactly one row for each folder whose tag set is not empty, none for
\* another folder and none twice, and the Tags field of a row is the
\* folder's tags joined by ', '.
C18_ExportRowPerTaggedFolder ==
    Exported =>
        LET rows == exported.data.rows
        IN  /\ exported.data.header = <<"Path", "Tags">>
            /\ {rows[i][1] : i \in 1..Len(rows)} = {RelPath(d) : d \in TaggedFolders}
            /\ Len(rows) = Cardinality(TaggedFolders)
            /\ \A i \in 1..Len(rows) :
                  /\ Resolve(rows[i][1]).ok
                  /\ rows[i][2] = JoinComma(load_tags(files[Resolve(rows[i][1]).dir]))

---------------------------------------------------------------------------
(* C19.  The publishers listed.                                            *)

\* C19: the publishers the window lists are exactly the directories
\* directly under the root whose name starts with a recognized prefix, in
\* ascending order, each once: no plain file and no directory without such
\* a prefix is among them.
C19_PublishersListed ==
    /\ Range(all_publishers) = {d[2] : d \in PublisherFolders(ex_tree)}
    /\ IsSortedUnique(all_publishers)
    /\ \A i \in 1..Len(all_publishers) :
          /\ Append(root_directory, all_publishers[i]) \in ex_tree.dirs
          /\ Append(root_directory, all_publishers[i]) \notin ex_tree.plain
          /\ HasPrefix(all_publishers[i])
    /\ publisher_list = all_publishers

\* C19's case: the window was opened on a root with two publishers, "__BB"
\* listed after "$__a", beside the plain file __c and the folder m.
C19_Witness ==
    /\ all_publishers = <<PubName(1), PubName(2)>>
    /\ <<nRoot, nPlain>> \in ex_tree.plain
    /\ dMisc \in ex_tree.dirs
    /\ HasPrefix(nPlain)
    /\ ~HasPrefix(nMisc)

---------------------------------------------------------------------------
(* C20.  The root directory at startup.                                    *)

\* the rows of the pointer file whose first field is an existing directory
ValidRows ==
    {i \in 1..Len(address_csv.rows) :
        address_csv.rows[i] # <<>> /\ PointerIsDir(address_csv.rows[i][1])}

Min(S) == CHOOSE x \in S : \A y \in S : x <= y

\* C20: when main has ended, if the pointer file exists and has a row
\* whose first field is an existing directory, the main window was created
\* on the first field of the first such row; if the file is missing or has
\* no such row, an error was reported and no window was created.
C20_FirstDirectoryOrError ==
    main_pc # "start" =>
        /\ (address_csv.exists /\ ValidRows # {}) =>
              /\ main_pc = "window"
              /\ root_dir = address_csv.rows[Min(ValidRows)][1]
        /\ ~address_csv.exists => (main_pc = "no_file" /\ root_dir = NoRoot)
        /\ (address_csv.exists /\ ValidRows = {}) => (main_pc = "no_path" /\ root_dir = NoRoot)

\* C20's case: the window was created on /o, named by the second row,
\* after a row naming no directory and before a row naming /x.
C20_Witness ==
    /\ main_pc = "window"
    /\ root_dir = pAbs
    /\ ValidRows = {2, 3}
    /\ address_csv.rows[3][1] = pRoot

---------------------------------------------------------------------------
(* C21.  Scanning twice.                                                   *)

\* the handler that ended last finished with load_all_tags
ScanEnded ==
    \/ last.op = "init"
    \/ last.op = "global_search" /\ last.flag
    \/ last.op \in {"edit", "clear_all"} /\ last.flag
    \/ last.op = "import" /\ ~last.aborted

\* C21: when the cache and the master list are those of a load_all_tags
\* and load_all_tags runs again (the empty search resets the lists) with
\* the tag files as they were, the tag cache and all_tags are unchanged.
C21_ScanIdempotent ==
    [][(ScanEnded /\ last'.op = "global_search" /\ last'.flag /\ files' = files) =>
          /\ tag_cache' = tag_cache
          /\ all_tags' = all_tags
          /\ tag_cache' = ScanAllTags(files)]_vars

\* C21's case: the lists were reset in a window whose tag files nobody
\* has written since it opened, with several tagged folders and tags.
C21_Witness ==
    /\ last.op = "global_search" /\ last.flag
    /\ written = {}
    /\ Len(tag_cache) >= 2
    /\ Len(all_tags) >= 2

---------------------------------------------------------------------------
(* C22.  Tags that differ in letter case.                                  *)

\* two tags that differ only in letter case
CaseVariants(t, u) == t # u /\ Lower(t) = Lower(u)

\* C22: a saved and reloaded list of well-formed tags has one entry for
\* each distinct spelling, every tag as it was spelled, so tags differing
\* only in letter case stay distinct; and the merge of an import, for
\* every split of the list into the tags found in the file and the tags
\* of the row, saves a file that loads as the same entries.
C22_CaseSensitive ==
    (st_pc = "loaded" /\ WellFormedList(st_tags)) =>
        /\ \A t \in Range(st_tags) : t \in Range(st_loaded)
        /\ Len(st_loaded) = Cardinality(Range(st_tags))
        /\ \A k \in 0..Len(st_tags) :
              \A c \in Combined(SubSeq(st_tags, 1, k), SubSeq(st_tags, k + 1, Len(st_tags))) :
                  load_tags(save_tags(c)) = st_loaded

\* C22's case: a, A and b have been saved and loaded back as three entries.
C22_Witness ==
    /\ st_pc = "loaded"
    /\ Range(st_tags) = {<<"a">>, <<"A">>, <<"b">>}
    /\ CaseVariants(st_tags[1], st_tags[2])
    /\ Len(st_loaded) = 3

---------------------------------------------------------------------------
(* C23.  An import that stops part way.                                    *)

\* C23: an import that stops after k rows (all of them, or those before
\* the first row that raises) leaves the tag files that the loop leaves
\* over the first k rows in file order: every folder that a valid row among
\* them names has a tag file written by this import (in overwrite mode with
\* the tags of the last such row), and the tag file of every folder that
\* only later rows name, or no row, is as it was.
C23_RowByRow ==
    [][last'.op = "import" =>
          LET csv == last'.input
              k == Cardinality(Processed(csv))
          IN  /\ Processed(csv) = 1..k
              /\ last'.aborted <=> k < Len(csv.rows)
              /\ files' \in {st.files : st \in
                    ImportRows({[files |-> files, cache |-> tag_cache, written |-> written,
                                 aborted |-> FALSE]},
                               csv.header, SubSeq(csv.rows, 1, k), last'.flag)}
              /\ \A d \in Dirs :
                    LET first == RowsNaming(csv, d) \cap 1..k
                    IN  /\ first # {} =>
                              /\ files'[d].exists
                              /\ d \in written'
                              /\ last'.flag =>
                                    Range(load_tags(files'[d])) = Range(ParseTags(csv.rows[Max(first)][2]))
                        /\ first = {} => files'[d] = files[d]]_vars

\* C23's case: an import stopped at its second row; the folder its first
\* row names has a tag file of this import, and the folder the second row
\* names, which held no tag file, holds none.
C23_Witness ==
    /\ last.op = "import" /\ last.aborted
    /\ Len(last.input.rows) = 2
    /\ Processed(last.input) = {1}
    /\ RowsNaming(last.input, dTopic) = {1}
    /\ RowsNaming(last.input, dChap) = {2}
    /\ dTopic \in written /\ files[dTopic].exists
    /\ ~files[dChap].exists

---------------------------------------------------------------------------
(* C24.  A global search sorts its matches by depth.                       *)

\* the name of the cache entry e or one of its tags contains q, case ignored
EntryMatches(e, q) ==
    \/ Contains(q, Lower(e[1][Len(e[1])]))
    \/ \E t \in Range(e[2]) : Contains(q, Lower(t))

\* the depth of a cache entry: the number of parts of its relative path
Depth(e) == Len(e[1])

\* C24: after a global search for a non-empty query, every matching cache
\* entry of depth 2 is in the topic list and not in the chapter list, every
\* matching entry of depth 3 is in the chapter list and not in the topic
\* list, an entry of any other depth is in neither list, and the topic
\* list holds paths of two parts only, the chapter list of three.
C24_SearchByDepth ==
    SearchedFor =>
        /\ \A i \in 1..Len(tag_cache) :
              LET e == tag_cache[i]
                  topic == e[1] \in ShownPaths(topic_list)
                  chapter == e[1] \in ShownPaths(chapter_list)
              IN  /\ (Depth(e) = 2 /\ EntryMatches(e, last.input)) => (topic /\ ~chapter)
                  /\ (Depth(e) = 3 /\ EntryMatches(e, last.input)) => (chapter /\ ~topic)
                  /\ Depth(e) \notin {2, 3} => (~topic /\ ~chapter)
        /\ \A path \in ShownPaths(topic_list) : Len(path) = 2
        /\ \A path \in ShownPaths(chapter_list) : Len(path) = 3

\* C24's case: the query matches the root, a publisher, a topic, a chapter
\* and a folder of depth 4, all in the cache; one topic and one chapter
\* are listed.
C24_Witness ==
    /\ SearchedFor
    /\ {Depth(tag_cache[i]) : i \in {j \in 1..Len(tag_cache) : EntryMatches(tag_cache[j], last.input)}}
          = {1, 2, 3, 4}
    /\ CacheHas(tag_cache, RelPath(root_directory))
    /\ Len(topic_list) = 1
    /\ Len(chapter_list) = 1

---------------------------------------------------------------------------
(* C25.  Export, then import of the exported file.                         *)

\* a cache as a mapping: its paths, each with the set of its tags
CacheSets(c) == {<<c[i][1], Range(c[i][2])>> : i \in 1..Len(c)}

\* C25, as stated: when the file that an export has just written is
\* imported in overwrite mode, every folder has the tag set it had, and
\* the tag cache maps the same paths to the same tag sets as before.
C25_ExportImportIdentity ==
    [][(Exported /\ last'.op = "import" /\ last'.flag /\ last'.input = exported.data) =>
          /\ \A d \in Dirs : Range(load_tags(files'[d])) = Range(load_tags(files[d]))
          /\ CacheSets(tag_cache') = CacheSets(tag_cache)]_vars

---------------------------------------------------------------------------
(* C26.  Clear all.                                                        *)

ClearedAll == last.op = "clear_all" /\ last.flag

\* C26, as stated: after a confirmed clear-all no folder has a tag: every
\* folder's tag file loads as no tags, the tag cache is empty and all_tags
\* is empty.
C26_ClearAllLeavesNoTag ==
    ClearedAll =>
        /\ \A d \in Dirs : load_tags(files[d]) = <<>>
        /\ tag_cache = <<>>
        /\ all_tags = <<>>

---------------------------------------------------------------------------
(* C27.  The master tag list and the cache.                                *)

\* the tags of the lists held in the cache c
CachedTags(c) == UNION {Range(c[i][2]) : i \in 1..Len(c)}

\* C27, as stated: between user operations, an import that ended early
\* included, all_tags is sorted, has no duplicate, and its tags are those
\* of the tag lists of the cache.
C27_AllTagsOfCache ==
    /\ IsSortedUnique(all_tags)
    /\ Range(all_tags) = CachedTags(tag_cache)

---------------------------------------------------------------------------
(* C28.  The drilldown of the pie chart.                                   *)

\* the pie offers a drilldown: a wedge of it opens a dialog when double-clicked
Offers(chart) ==
    /\ chart.leftover_items # <<>>
    /\ \E w \in 1..Len(chart.items) : chart.items[w][1] = Others

\* what a pie over its categories shows, for a top_n that is given
PieShows(chart) ==
    LET n == Len(chart.data_dict)
        rest == chart.leftover_items
    IN  /\ (top_n > 0 /\ n > top_n) =>
              /\ Len(chart.items) = top_n + 1
              /\ chart.items[top_n + 1] = <<Others, SumCounts(rest)>>
              /\ Len(rest) = n - top_n
              /\ Range(SubSeq(chart.items, 1, top_n)) \cup Range(rest) = Range(chart.data_dict)
              /\ \A i \in 1..top_n, j \in 1..Len(rest) : chart.items[i][2] >= rest[j][2]
              /\ Offers(chart)
        /\ n <= top_n =>
              /\ Range(chart.items) = Range(chart.data_dict)
              /\ ~Offers(chart)

\* each pie but the first is over the leftover of the pie it was opened
\* from, which are fewer categories than that pie is over
ChainShrinks ==
    \A i \in 2..Len(charts) :
        /\ Range(charts[i].data_dict) = Range(charts[i - 1].leftover_items)
        /\ Len(charts[i].data_dict) < Len(charts[i - 1].data_dict)

\* C28: every pie over more than top_n categories shows the top_n largest
\* and one "Others" wedge worth the sum of the rest; every pie opened by a
\* drilldown is over fewer categories than the pie it was opened from; a
\* pie over at most top_n categories offers no drilldown; and every chain
\* of drilldowns comes to a pie that offers none.
C28_DrilldownTerminates ==
    /\ [](ChainShrinks /\ \A i \in 1..Len(charts) : PieShows(charts[i]))
    /\ <>[](charts # <<>> /\ ~Offers(charts[Len(charts)]))

\* C28's case: five categories with top_n 2; the drilldown was taken twice,
\* to a pie over three categories and then to a pie over one, which
\* offers none.
C28_Witness ==
    /\ top_n = 2
    /\ Len(charts) = 3
    /\ Len(charts[1].data_dict) = 5
    /\ Len(charts[2].data_dict) = 3
    /\ Len(charts[3].data_dict) = 1
    /\ ~Offers(charts[3])

=============================================================================
